---- MODULE Spec2Model ----
(***************************************************************************)
(* Model of the score program (score-program/src/lib.rs): one entrypoint,  *)
(* process_instruction, run to completion by the ledger for every          *)
(* submitted instruction.  The ledger state is the raw data buffer of each *)
(* account; a u64 is kept at its full width as four 16-bit limbs, least    *)
(* significant first, and is stored as 8 little-endian bytes.              *)
(***************************************************************************)
EXTENDS Integers, Sequences, FiniteSets

VARIABLES records, created, total, calls, last

vars == <<records, created, total, calls, last>>

\* ------------------------------------------------------------------ bounds
NumPlayers == 2
MaxCalls == 3

\* --------------------------------------------------------------- constants
ScoreAccount_LEN == 1 + 32 + 8
MAX_SCORE == 1000000

\* ------------------------------------------------------------------- keys
\* Public keys are small identifiers; as_ref gives their 32 bytes.
SystemProgramId == 0
Players == 1..NumPlayers

as_ref(key) == [i \in 1..32 |-> (key * 31 + i * 7) % 256]

\* Pubkey::find_program_address(&[b"score", player.key], program_id): a
\* deterministic, collision-free address off the signing curve, and its bump.
find_program_address(player_key) ==
    [pda |-> 100 + player_key, bump |-> 255]

Pda(p) == find_program_address(p).pda
Keys == Players \cup {Pda(p) : p \in Players}

\* -------------------------------------------------------------------- u64
U64_MAX == <<65535, 65535, 65535, 65535>>

\* a literal below 2^31 as a u64
U64(n) == <<n % 65536, n \div 65536, 0, 0>>

from_le_bytes(b) == [i \in 1..4 |-> b[2 * i - 1] + 256 * b[2 * i]]

\* variant of the encoding with the most significant byte first
to_be_bytes(v) ==
    [i \in 1..8 |-> IF i % 2 = 1 THEN v[(9 - i + 1) \div 2] \div 256
                                 ELSE v[(9 - i + 1) \div 2] % 256]

to_le_bytes(v) ==
    [i \in 1..8 |-> IF i % 2 = 1 THEN v[(i + 1) \div 2] % 256
                                 ELSE v[i \div 2] \div 256]

\* variant of the comparison that also holds for equal values
GeU64(a, b) ==
    a = b \/ \E i \in 1..4 : a[i] > b[i] /\ \A j \in (i + 1)..4 : a[j] = b[j]

\* a > b on u64
GtU64(a, b) ==
    \E i \in 1..4 : a[i] > b[i] /\ \A j \in (i + 1)..4 : a[j] = b[j]

\* variants of checked_add that do not report the overflow
saturating_add(a, b) ==
    LET s1 == a[1] + b[1]
        s2 == a[2] + b[2] + s1 \div 65536
        s3 == a[3] + b[3] + s2 \div 65536
        s4 == a[4] + b[4] + s3 \div 65536
    IN  [some |-> TRUE,
         val |-> IF s4 \div 65536 # 0 THEN U64_MAX
                 ELSE <<s1 % 65536, s2 % 65536, s3 % 65536, s4 % 65536>>]

wrapping_add(a, b) ==
    LET s1 == a[1] + b[1]
        s2 == a[2] + b[2] + s1 \div 65536
        s3 == a[3] + b[3] + s2 \div 65536
        s4 == a[4] + b[4] + s3 \div 65536
    IN  [some |-> TRUE,
         val |-> <<s1 % 65536, s2 % 65536, s3 % 65536, s4 % 65536>>]

\* u64::checked_add: None on overflow
checked_add(a, b) ==
    LET s1 == a[1] + b[1]
        s2 == a[2] + b[2] + s1 \div 65536
        s3 == a[3] + b[3] + s2 \div 65536
        s4 == a[4] + b[4] + s3 \div 65536
    IN  IF s4 \div 65536 # 0
        THEN [some |-> FALSE, val |-> U64(0)]
        ELSE [some |-> TRUE,
              val |-> <<s1 % 65536, s2 % 65536, s3 % 65536, s4 % 65536>>]

\* ----------------------------------------------------------------- slices
\* dst[lo..hi].copy_from_slice(src), zero-based half-open range
copy_from_slice(dst, lo, hi, src) ==
    [i \in 1..Len(dst) |-> IF lo < i /\ i <= hi THEN src[i - lo] ELSE dst[i]]

\* &data[lo..hi]
slice(data, lo, hi) == SubSeq(data, lo + 1, hi)

Zeroes(n) == [i \in 1..n |-> 0]

\* ---------------------------------------------------------------- results
Ok == "Ok"
InvalidAccountData == "InvalidAccountData"
AccountAlreadyInitialized == "AccountAlreadyInitialized"
UninitializedAccount == "UninitializedAccount"
InvalidInstructionData == "InvalidInstructionData"
NotEnoughAccountKeys == "NotEnoughAccountKeys"
\* the failure of the system program's create_account, passed through by `?`
AllocationFailure == "AllocationFailure"
\* index out of bounds: the program aborts without returning a ProgramError
Panic == "Panic"

TypedResults ==
    {Ok, InvalidAccountData, AccountAlreadyInitialized, UninitializedAccount,
     InvalidInstructionData, NotEnoughAccountKeys, AllocationFailure}

\* what an invocation hands back: its result and the score account's buffer
Return(result, data) == [result |-> result, data |-> data]

\* ---------------------------------------------------------------- handler
\* variant of the probe that reads the byte after the flag
is_initialized_wrong_index(data) ==
    Len(data) = ScoreAccount_LEN /\ data[2] = 1

\* variant of the probe without the length test
is_initialized_flag_only(data) == Len(data) >= 1 /\ data[1] = 1

\* the record probe
is_initialized(data) == Len(data) = ScoreAccount_LEN /\ data[1] = 1

\* variant of the address check that accepts any score account
pda_unchecked(pda, score_key) == TRUE

\* the derived address must be the score account passed by the caller
pda_matches(pda, score_key) == pda = score_key

\* invoke_signed(create_account(player, score_account, lamports, LEN,
\* program_id), .., seeds): the system program allocates LEN zero bytes at the
\* address when the payer signed and can fund it, the address is the one the
\* seeds sign for, and the address is not in use.
invoke_signed(player, score_account, pda, funded) ==
    IF player.is_signer /\ funded /\ score_account.key = pda
       /\ Len(score_account.data) = 0
    THEN Return(Ok, Zeroes(ScoreAccount_LEN))
    ELSE Return(AllocationFailure, score_account.data)

\* variant of the initialization that leaves the player bytes zero
init_record_no_player(score_data, player_key) ==
    copy_from_slice([score_data EXCEPT ![1] = 1], 33, 41, to_le_bytes(U64(0)))

\* the three writes of the initialization
init_record(score_data, player_key) ==
    LET d0 == [score_data EXCEPT ![1] = 1]
        d1 == copy_from_slice(d0, 1, 33, as_ref(player_key))
    IN  copy_from_slice(d1, 33, 41, to_le_bytes(U64(0)))

\* variant of the update that writes at the start of the buffer
store_score_at_start(score_data, new_score) ==
    copy_from_slice(score_data, 0, 8, to_le_bytes(new_score))

\* variant of the update that writes one byte early
store_score_shifted(score_data, new_score) ==
    copy_from_slice(score_data, 32, 40, to_le_bytes(new_score))

\* the write of the update
store_score(score_data, new_score) ==
    copy_from_slice(score_data, 33, 41, to_le_bytes(new_score))

\* variant of instruction 0 that reports a failed allocation as bad account data
Create_remapped_failure(score_account, player, pda, funded) ==
    IF is_initialized(score_account.data)
    THEN Return(AccountAlreadyInitialized, score_account.data)
    ELSE LET alloc == invoke_signed(player, score_account, pda, funded)
         IN  IF alloc.result # Ok
             THEN Return(InvalidAccountData, alloc.data)
             ELSE Return(Ok, init_record(alloc.data, player.key))

\* instruction 0
Create(score_account, player, pda, funded) ==
    IF is_initialized(score_account.data)
    THEN Return(AccountAlreadyInitialized, score_account.data)
    ELSE LET alloc == invoke_signed(player, score_account, pda, funded)
         IN  IF alloc.result # Ok
             THEN alloc
             ELSE Return(Ok, init_record(alloc.data, player.key))

\* variant of the update without the ceiling test
update_score_no_ceiling(score_data, instruction_data) ==
    LET current_score == from_le_bytes(slice(score_data, 33, 41)) IN
    IF Len(instruction_data) < 9
    THEN Return(InvalidInstructionData, score_data)
    ELSE LET increment == from_le_bytes(slice(instruction_data, 1, 9))
             new_score == checked_add(current_score, increment)
         IN  IF ~new_score.some
             THEN Return(InvalidAccountData, score_data)
             ELSE Return(Ok, store_score(score_data, new_score.val))

\* variant of the update that writes the sum before testing the overflow
update_score_store_first(score_data, instruction_data) ==
    LET current_score == from_le_bytes(slice(score_data, 33, 41)) IN
    IF GtU64(current_score, U64(MAX_SCORE))
    THEN Return(InvalidAccountData, score_data)
    ELSE IF Len(instruction_data) < 9
    THEN Return(InvalidInstructionData, score_data)
    ELSE LET increment == from_le_bytes(slice(instruction_data, 1, 9))
             written == store_score(score_data,
                                    wrapping_add(current_score, increment).val)
         IN  IF ~checked_add(current_score, increment).some
             THEN Return(InvalidAccountData, written)
             ELSE Return(Ok, written)

\* instruction 1 once the record is known to be initialized
update_score(score_data, instruction_data) ==
    LET current_score == from_le_bytes(slice(score_data, 33, 41)) IN
    IF GtU64(current_score, U64(MAX_SCORE))
    THEN Return(InvalidAccountData, score_data)
    ELSE IF Len(instruction_data) < 9
    THEN Return(InvalidInstructionData, score_data)
    ELSE LET increment == from_le_bytes(slice(instruction_data, 1, 9))
             new_score == checked_add(current_score, increment)
         IN  IF ~new_score.some
             THEN Return(InvalidAccountData, score_data)
             ELSE Return(Ok, store_score(score_data, new_score.val))

\* variant of instruction 1 without the initialization guard: slicing a
\* buffer shorter than 41 bytes aborts
Increment_unguarded(score_account, instruction_data) ==
    IF Len(score_account.data) < ScoreAccount_LEN
    THEN Return(Panic, score_account.data)
    ELSE update_score(score_account.data, instruction_data)

\* instruction 1
Increment(score_account, instruction_data) ==
    IF ~is_initialized(score_account.data)
    THEN Return(UninitializedAccount, score_account.data)
    ELSE update_score(score_account.data, instruction_data)

\* variant of the dispatch that asks for the player's signature on instruction 1
process_instruction_signer_checked(accounts, instruction_data, funded) ==
    IF Len(accounts) < 3
    THEN Return(NotEnoughAccountKeys,
                IF Len(accounts) = 0 THEN <<>> ELSE accounts[1].data)
    ELSE LET score_account == accounts[1]
             player == accounts[2]
             pda == find_program_address(player.key).pda
         IN  IF ~pda_matches(pda, score_account.key)
             THEN Return(InvalidAccountData, score_account.data)
             ELSE IF Len(instruction_data) = 0
             THEN Return(Panic, score_account.data)
             ELSE IF instruction_data[1] = 0
             THEN Create(score_account, player, pda, funded)
             ELSE IF instruction_data[1] = 1
             THEN IF ~player.is_signer
                  THEN Return("MissingRequiredSignature", score_account.data)
                  ELSE Increment(score_account, instruction_data)
             ELSE Return(InvalidInstructionData, score_account.data)

\* variant of the dispatch that treats every non-zero selector as instruction 1
process_instruction_default_increment(accounts, instruction_data, funded) ==
    IF Len(accounts) < 3
    THEN Return(NotEnoughAccountKeys,
                IF Len(accounts) = 0 THEN <<>> ELSE accounts[1].data)
    ELSE LET score_account == accounts[1]
             player == accounts[2]
             pda == find_program_address(player.key).pda
         IN  IF ~pda_matches(pda, score_account.key)
             THEN Return(InvalidAccountData, score_account.data)
             ELSE IF Len(instruction_data) = 0
             THEN Return(Panic, score_account.data)
             ELSE IF instruction_data[1] = 0
             THEN Create(score_account, player, pda, funded)
             ELSE Increment(score_account, instruction_data)

\* accounts: the account infos in the caller's order, each with its key, its
\* data buffer and its signer flag; funded: whether the payer can fund the
\* allocation (decided by the ledger, not by the program)
process_instruction(accounts, instruction_data, funded) ==
    IF Len(accounts) < 3
    THEN Return(NotEnoughAccountKeys,
                IF Len(accounts) = 0 THEN <<>> ELSE accounts[1].data)
    ELSE LET score_account == accounts[1]
             player == accounts[2]
             pda == find_program_address(player.key).pda
         IN  IF ~pda_matches(pda, score_account.key)
             THEN Return(InvalidAccountData, score_account.data)
             ELSE IF Len(instruction_data) = 0
             THEN Return(Panic, score_account.data)
             ELSE IF instruction_data[1] = 0
             THEN Create(score_account, player, pda, funded)
             ELSE IF instruction_data[1] = 1
             THEN Increment(score_account, instruction_data)
             ELSE Return(InvalidInstructionData, score_account.data)

\* ----------------------------------------------------------------- inputs
Selectors == {0, 1, 2}

\* amounts around zero, the ceiling and the top of the u64 range
Amounts ==
    {U64(0), U64(1), U64(MAX_SCORE),
     <<48575, 65520, 65535, 65535>>,      \* u64::MAX - 1,000,000
     <<48576, 65520, 65535, 65535>>,      \* u64::MAX - 999,999
     U64_MAX}

\* selector, amount (little-endian) and one trailing byte, cut to n bytes
Payload(selector, amount, n) ==
    SubSeq(<<selector>> \o to_le_bytes(amount) \o <<7>>, 1, n)

\* a well-formed Increment of every amount; an Increment with an empty, a
\* short and an over-long payload; the other selectors, bare and with an amount
Payloads ==
    {Payload(1, a, 9) : a \in Amounts}
    \cup {Payload(1, U64(1), n) : n \in {0, 1, 5, 10}}
    \cup {Payload(s, U64(1), n) : s \in Selectors \ {1}, n \in {1, 9}}

\* the keys of the accounts passed, in order: score account, player, system
\* program.  The score account is the address derived for the player, the
\* one derived for another player, or a wallet; a caller may pass fewer than
\* three accounts.
AccountKeyLists ==
    {<<Pda(p), p, SystemProgramId>> : p \in Players}
    \cup {<<Pda((p % NumPlayers) + 1), p, SystemProgramId>> : p \in Players}
    \cup {<<1, 1, SystemProgramId>>}
    \cup {SubSeq(<<Pda(1), 1, SystemProgramId>>, 1, n) : n \in 0..2}

\* ---------------------------------------------------------- state machine
\* the sum of two 8-byte little-endian numbers as 9 bytes, the last one the
\* carry out of the 64 bits
RECURSIVE ByteSumFrom(_, _, _, _)
ByteSumFrom(x, y, i, carry) ==
    IF i > 8 THEN <<carry>>
    ELSE <<(x[i] + y[i] + carry) % 256>>
         \o ByteSumFrom(x, y, i + 1, (x[i] + y[i] + carry) \div 256)
ByteSum(x, y) == ByteSumFrom(x, y, 1, 0)

\* the running total of a record's accepted amounts with one more amount
\* added; a carry out of the 64 bits, once set, stays
Accumulate(sum, amount) ==
    LET s == ByteSum(SubSeq(sum, 1, 8), amount)
    IN  [s EXCEPT ![9] = IF sum[9] = 1 THEN 1 ELSE s[9]]

Init ==
    /\ records = [k \in Keys \cup {SystemProgramId} |-> <<>>]
    /\ created = {}
    /\ total = [k \in Keys |-> Zeroes(9)]
    /\ calls = 0
    /\ last = [accounts |-> <<>>, signer |-> FALSE, data |-> <<>>,
               result |-> "None", pre |-> records, created |-> {}]

\* the ledger runs one submitted instruction to completion
Invoke ==
    /\ calls < MaxCalls
    /\ \E keys \in AccountKeyLists, signer \in BOOLEAN,
          data \in Payloads, funded \in BOOLEAN :
          LET accounts ==
                  [i \in 1..Len(keys) |->
                      [key |-> keys[i], data |-> records[keys[i]],
                       is_signer |-> (i = 2 /\ signer)]]
              out == process_instruction(accounts, data, funded)
          IN  /\ records' = IF Len(keys) = 0 THEN records
                            ELSE [records EXCEPT ![keys[1]] = out.data]
              /\ created' = IF out.result = Ok /\ data[1] = 0
                            THEN created \cup {keys[2]} ELSE created
              /\ total' = IF out.result # Ok THEN total
                          ELSE IF data[1] = 0
                          THEN [total EXCEPT ![keys[1]] = Zeroes(9)]
                          ELSE [total EXCEPT ![keys[1]] =
                                   Accumulate(@, SubSeq(data, 2, 9))]
              /\ last' = [accounts |-> keys, signer |-> signer, data |-> data,
                          result |-> out.result, pre |-> records,
                          created |-> created]
    /\ calls' = calls + 1

Next == Invoke

Spec == Init /\ [][Next]_vars

\* ------------------------------------------------- the probe on any buffer
\* The handler probes whatever buffer it is handed.  Buffers of every shape
\* around the record's: empty, one byte, one byte short, exact and one byte
\* long, with a first byte of 0, 1 and 2; the rest is a record of player 1
\* with a zero score.
ProbeBuffer(n, flag) ==
    [i \in 1..n |-> IF i = 1 THEN flag
                    ELSE IF i <= 33 THEN as_ref(1)[i - 1] ELSE 0]

ProbeBuffers ==
    {ProbeBuffer(n, flag) :
        n \in {0, 1, ScoreAccount_LEN - 1, ScoreAccount_LEN,
               ScoreAccount_LEN + 1},
        flag \in {0, 1, 2}}

InitProbe ==
    /\ \E b \in ProbeBuffers :
          records = [k \in Keys \cup {SystemProgramId} |->
                        IF k = Pda(1) THEN b ELSE <<>>]
    /\ created = {}
    /\ total = [k \in Keys |-> Zeroes(9)]
    /\ calls = 0
    /\ last = [accounts |-> <<>>, signer |-> FALSE, data |-> <<>>,
               result |-> "None", pre |-> records, created |-> {}]

\* one invocation on the buffer
ProbeInvoke == calls = 0 /\ Invoke

SpecProbe == InitProbe /\ [][ProbeInvoke]_vars

\* ------------------------------------------------------------- type check
TypeOK ==
    /\ \A k \in DOMAIN records :
          Len(records[k]) \in {0, ScoreAccount_LEN}
          /\ \A i \in 1..Len(records[k]) : records[k][i] \in 0..255
    /\ created \subseteq Players
    /\ calls \in 0..MaxCalls

\* ------------------------------------------------- the last invocation
ThreeAccounts == Len(last.accounts) = 3
ScoreKey == last.accounts[1]
Player == last.accounts[2]
\* three accounts, and the score account is the address derived for the player
CorrectAddress == ThreeAccounts /\ ScoreKey = Pda(Player)
Selector(n) == Len(last.data) >= 1 /\ last.data[1] = n
PreData == last.pre[ScoreKey]
PostData == records[ScoreKey]
ScoreBytes(data) == SubSeq(data, 34, 41)
AmountBytes == SubSeq(last.data, 2, 9)

\* x < y for two 8-byte little-endian numbers
LtBytes(x, y) == \E i \in 1..8 : x[i] < y[i] /\ \A j \in (i + 1)..8 : x[j] = y[j]

\* 1,000,000 = 0x0F4240
CeilingBytes == <<64, 66, 15, 0, 0, 0, 0, 0>>

\* ------------------------------------------------------------------ claims
\* C1 (init-once): a Create with the correct derived address for a player
\* whose Create has succeeded before fails with AccountAlreadyInitialized and
\* leaves the 41 record bytes as they were.
C1_InitOnce ==
    (CorrectAddress /\ Selector(0) /\ Player \in last.created)
    => /\ last.result = AccountAlreadyInitialized
       /\ Len(PostData) = 41
       /\ PostData = PreData

\* a second Create is refused after an Increment has changed the score
C1_Witness ==
    /\ CorrectAddress /\ Selector(0) /\ Player \in last.created
    /\ last.result = AccountAlreadyInitialized
    /\ ScoreBytes(PreData) # Zeroes(8)

\* C2 (no update before init): an Increment with the correct derived address
\* and a payload of at least one byte, for a player whose record was never
\* created, fails with UninitializedAccount and leaves the record not
\* initialized.
C2_NoUpdateBeforeInit ==
    (CorrectAddress /\ Selector(1) /\ Player \notin last.created)
    => /\ last.result = UninitializedAccount
       /\ ~(Len(PostData) = 41 /\ PostData[1] = 1)

\* a well-formed Increment refused for a player without a record, while
\* another player has one
C2_Witness ==
    /\ CorrectAddress /\ Selector(1) /\ Player \notin last.created
    /\ Len(last.data) = 9
    /\ last.created # {}
    /\ last.result = UninitializedAccount

\* C3 (additive correctness): a successful Increment with amount A on a
\* stored score S leaves the stored score S + A, with no carry out of 64 bits.
C3_Additive ==
    (CorrectAddress /\ Selector(1) /\ last.result = Ok)
    => ScoreBytes(PostData) \o <<0>> = ByteSum(ScoreBytes(PreData), AmountBytes)

\* a successful Increment of a non-zero amount on a non-zero score
C3_Witness ==
    /\ CorrectAddress /\ Selector(1) /\ last.result = Ok
    /\ ScoreBytes(PreData) # Zeroes(8)
    /\ AmountBytes # Zeroes(8)

\* C4 (overflow guard): an Increment on an initialized record whose amount
\* takes the sum over the 64-bit maximum fails with InvalidAccountData, and
\* the stored score is unchanged and is not the wrapped sum.
C4_OverflowGuard ==
    (/\ CorrectAddress /\ Selector(1) /\ Len(last.data) >= 9
     /\ Len(PreData) = 41 /\ PreData[1] = 1
     /\ ByteSum(ScoreBytes(PreData), AmountBytes)[9] = 1)
    => /\ last.result = InvalidAccountData
       /\ ScoreBytes(PostData) = ScoreBytes(PreData)
       /\ ScoreBytes(PostData)
            # SubSeq(ByteSum(ScoreBytes(PreData), AmountBytes), 1, 8)

\* an overflowing Increment on a score that passes the ceiling check
C4_Witness ==
    /\ CorrectAddress /\ Selector(1) /\ Len(last.data) >= 9
    /\ Len(PreData) = 41 /\ PreData[1] = 1
    /\ ~LtBytes(CeilingBytes, ScoreBytes(PreData))
    /\ ByteSum(ScoreBytes(PreData), AmountBytes)[9] = 1
    /\ last.result = InvalidAccountData

\* C5 (malformed payload): an Increment on an initialized record with the
\* correct derived address and a payload shorter than 9 bytes fails with
\* InvalidInstructionData whatever the stored score, and leaves the record
\* unchanged.
C5_MalformedPayload ==
    (/\ CorrectAddress /\ Selector(1) /\ Len(last.data) < 9
     /\ Len(PreData) = 41 /\ PreData[1] = 1)
    => /\ last.result = InvalidInstructionData
       /\ PostData = PreData

\* C6 (mismatched address): an invocation with three accounts whose score
\* account is not the address derived for the player fails with
\* InvalidAccountData, whatever the selector, the payload length and the
\* record's state, and modifies no record.
C6_MismatchedAddress ==
    (ThreeAccounts /\ ScoreKey # Pda(Player))
    => /\ last.result = InvalidAccountData
       /\ records = last.pre

\* a player aims a well-formed Increment at another player's initialized record
C6_Witness ==
    /\ ThreeAccounts /\ ScoreKey # Pda(Player)
    /\ Len(PreData) = 41 /\ PreData[1] = 1
    /\ Selector(1) /\ Len(last.data) = 9
    /\ last.result = InvalidAccountData

\* C7 (typed outcome): every invocation with three accounts and the correct
\* derived address, for a payload of any length including the empty one,
\* returns success or one of the typed failures.
C7_TypedOutcome ==
    CorrectAddress
    => last.result \in {Ok, InvalidAccountData, AccountAlreadyInitialized,
                        UninitializedAccount, InvalidInstructionData,
                        AllocationFailure}

\* C8 (Create post-state): a successful Create for player P leaves a record of
\* 41 bytes: byte 0 is 1, bytes 1..33 are P, bytes 33..41 are zero.
C8_CreatePostState ==
    (CorrectAddress /\ Selector(0) /\ last.result = Ok)
    => /\ Len(PostData) = 41
       /\ PostData[1] = 1
       /\ SubSeq(PostData, 2, 33) = as_ref(Player)
       /\ SubSeq(PostData, 34, 41) = <<0, 0, 0, 0, 0, 0, 0, 0>>

\* a successful Create on a record that was not initialized
C8_Witness ==
    /\ CorrectAddress /\ Selector(0) /\ last.result = Ok
    /\ Len(PreData) = 0
    /\ Len(PostData) = 41

\* the stored score of a buffer, zero bytes while there is no record
StoredScore(data) == IF Len(data) = 41 THEN ScoreBytes(data) ELSE Zeroes(8)

\* C9 (monotonic score): no invocation, successful or failing, leaves the
\* stored score of any record smaller than it was in the state before.
C9_Monotonic ==
    \A k \in Keys :
        ~LtBytes(StoredScore(records[k]), StoredScore(last.pre[k]))

\* an Increment has made a stored score strictly larger
C9_Witness ==
    /\ CorrectAddress /\ Selector(1) /\ last.result = Ok
    /\ LtBytes(StoredScore(PreData), StoredScore(PostData))

\* C10 (player binding): an initialized record at the address derived for P
\* holds P in its player field, and an Increment, successful or not, leaves
\* bytes 0..33 of every record unchanged.
C10_PlayerBinding ==
    /\ \A p \in Players :
          (Len(records[Pda(p)]) = 41 /\ records[Pda(p)][1] = 1)
          => SubSeq(records[Pda(p)], 2, 33) = as_ref(p)
    /\ Selector(1)
       => \A k \in Keys :
             /\ Len(records[k]) = Len(last.pre[k])
             /\ Len(records[k]) = 41
                => SubSeq(records[k], 1, 33) = SubSeq(last.pre[k], 1, 33)

\* a successful Increment while two players hold records
C10_Witness ==
    /\ CorrectAddress /\ Selector(1) /\ last.result = Ok
    /\ Cardinality({p \in Players : Len(records[Pda(p)]) = 41}) >= 2
    /\ ScoreBytes(PostData) # ScoreBytes(PreData)

\* C11 (no partial commit): an invocation that returns a failure of any kind
\* leaves the bytes of every record as they were before it.
C11_NoPartialCommit ==
    last.result \notin {Ok, "None"} => records = last.pre

\* an Increment refused for overflow on a record that passes the ceiling check
C11_Witness ==
    /\ CorrectAddress /\ Selector(1) /\ Len(last.data) = 9
    /\ Len(PreData) = 41
    /\ ~LtBytes(CeilingBytes, ScoreBytes(PreData))
    /\ last.result = InvalidAccountData
    /\ records = last.pre

\* C12 (unknown selector): an invocation with the correct derived address whose
\* first payload byte is neither 0 nor 1 fails with InvalidInstructionData,
\* initialized or not and whatever the score, and leaves the record unchanged.
C12_UnknownSelector ==
    (CorrectAddress /\ Len(last.data) >= 1 /\ last.data[1] \notin {0, 1})
    => /\ last.result = InvalidInstructionData
       /\ PostData = PreData

\* an unknown selector on an initialized record whose score is over the ceiling
C12_Witness ==
    /\ CorrectAddress /\ Len(last.data) >= 1 /\ last.data[1] \notin {0, 1}
    /\ Len(PreData) = 41 /\ PreData[1] = 1
    /\ LtBytes(CeilingBytes, ScoreBytes(PreData))
    /\ last.result = InvalidInstructionData

\* C13 (ceiling on the value before the increment): a well-formed Increment
\* that does not overflow, on an initialized record, fails with
\* InvalidAccountData exactly when the stored score before the call is above
\* 1,000,000, and succeeds otherwise, whatever the sum is.
C13_CeilingOnPreValue ==
    (/\ CorrectAddress /\ Selector(1) /\ Len(last.data) >= 9
     /\ Len(PreData) = 41 /\ PreData[1] = 1
     /\ ByteSum(ScoreBytes(PreData), AmountBytes)[9] = 0)
    => /\ last.result = InvalidAccountData
            <=> LtBytes(CeilingBytes, ScoreBytes(PreData))
       /\ last.result # InvalidAccountData => last.result = Ok

\* an Increment accepted at a stored score of exactly 1,000,000 that leaves a
\* stored score above 1,000,000
C13_Witness ==
    /\ CorrectAddress /\ Selector(1) /\ Len(last.data) >= 9
    /\ Len(PreData) = 41 /\ PreData[1] = 1
    /\ ScoreBytes(PreData) = CeilingBytes
    /\ last.result = Ok
    /\ LtBytes(CeilingBytes, ScoreBytes(PostData))

\* C14 (record probe decides dispatch), under SpecProbe: a buffer counts as
\* initialized exactly when it has 41 bytes and its first byte is 1.  On any
\* other buffer Increment fails with UninitializedAccount and Create is not
\* refused with AccountAlreadyInitialized but goes on to the allocation; on an
\* initialized one Create is refused and Increment is not.
C14_ProbeDecidesDispatch ==
    CorrectAddress
    => IF Len(PreData) = 41 /\ PreData[1] = 1
       THEN /\ Selector(0) => last.result = AccountAlreadyInitialized
            /\ Selector(1) => last.result # UninitializedAccount
       ELSE /\ Selector(1) => last.result = UninitializedAccount
            /\ Selector(0) => last.result \in {Ok, AllocationFailure}

\* a Create on a buffer one byte short whose first byte is 1 reaches the
\* allocation
C14_Witness ==
    /\ CorrectAddress /\ Selector(0)
    /\ Len(PreData) = 40 /\ PreData[1] = 1
    /\ last.result = AllocationFailure

\* the account infos the ledger hands over for a list of keys
AccountInfos(recs, keys, signer) ==
    [i \in 1..Len(keys) |->
        [key |-> keys[i], data |-> recs[keys[i]],
         is_signer |-> (i = 2 /\ signer)]]

\* C15 (allocation failure passes through): a Create on a record that is not
\* initialized returns success or the allocation's own failure, the latter
\* whenever the player has not signed; after the failure no record has
\* changed, the record is still not initialized, and a Create submitted next
\* for the same player is not refused with AccountAlreadyInitialized.
C15_AllocationFailure ==
    (CorrectAddress /\ Selector(0) /\ ~(Len(PreData) = 41 /\ PreData[1] = 1))
    => /\ last.result \in {Ok, AllocationFailure}
       /\ ~last.signer => last.result = AllocationFailure
       /\ last.result = AllocationFailure
          => /\ records = last.pre
             /\ ~(Len(PostData) = 41 /\ PostData[1] = 1)
             /\ \A signer \in BOOLEAN, funded \in BOOLEAN :
                   process_instruction(
                       AccountInfos(records, last.accounts, signer),
                       last.data, funded).result
                   # AccountAlreadyInitialized

\* a Create signed by the player whose allocation fails for lack of funds
C15_Witness ==
    /\ CorrectAddress /\ Selector(0) /\ last.signer
    /\ last.result = AllocationFailure
    /\ Len(PostData) = 0

\* C16 (per-player isolation): an invocation naming player P changes no
\* record other than the one at the address derived for P, whatever its
\* selector, payload and outcome, and no two records hold the same player.
C16_PerPlayerIsolation ==
    /\ ThreeAccounts
       => \A k \in DOMAIN records :
             k # Pda(Player) => records[k] = last.pre[k]
    /\ ~ThreeAccounts => records = last.pre
    /\ \A p \in Players :
          Cardinality({k \in DOMAIN records :
                          /\ Len(records[k]) >= 33
                          /\ SubSeq(records[k], 2, 33) = as_ref(p)}) <= 1

\* a player's record changes while another player's record, with a non-zero
\* score, stays as it was
C16_Witness ==
    /\ CorrectAddress /\ last.result = Ok /\ PostData # PreData
    /\ \E q \in Players \ {Player} :
          /\ Len(records[Pda(q)]) = 41
          /\ ScoreBytes(records[Pda(q)]) # Zeroes(8)
          /\ records[Pda(q)] = last.pre[Pda(q)]

\* C17 (no signer check on Increment): the Increment just run, run again from
\* the same state with the same accounts and payload but the player's signer
\* flag reversed, gives the same result and the same record.
C17_NoSignerCheck ==
    (ThreeAccounts /\ Selector(1))
    => \A funded \in BOOLEAN :
          process_instruction(
              AccountInfos(last.pre, last.accounts, ~last.signer),
              last.data, funded)
          = Return(last.result, PostData)

\* an Increment without the player's signature succeeds and changes the score
C17_Witness ==
    /\ CorrectAddress /\ Selector(1) /\ ~last.signer
    /\ last.result = Ok
    /\ ScoreBytes(PostData) # ScoreBytes(PreData)

\* C18 (over-ceiling is absorbing): a record whose stored score is above
\* 1,000,000 is left byte for byte unchanged by every invocation, and an
\* Increment on it fails with InvalidAccountData; so it holds from then on.
C18_OverCeilingAbsorbing ==
    /\ \A k \in Keys :
          (Len(last.pre[k]) = 41
           /\ LtBytes(CeilingBytes, ScoreBytes(last.pre[k])))
          => records[k] = last.pre[k]
    /\ (/\ CorrectAddress /\ Selector(1) /\ Len(PreData) = 41
        /\ LtBytes(CeilingBytes, ScoreBytes(PreData)))
       => last.result = InvalidAccountData

\* an Increment of zero refused on a record over the ceiling
C18_Witness ==
    /\ CorrectAddress /\ Selector(1) /\ Len(last.data) = 9
    /\ AmountBytes = Zeroes(8)
    /\ Len(PreData) = 41
    /\ LtBytes(CeilingBytes, ScoreBytes(PreData))
    /\ last.result = InvalidAccountData
    /\ PostData = PreData

\* C20 (initialization is permanent): a record that was initialized before an
\* invocation is initialized after it, whatever the invocation.
C20_InitializationPermanent ==
    \A k \in DOMAIN records :
        (Len(last.pre[k]) = 41 /\ last.pre[k][1] = 1)
        => (Len(records[k]) = 41 /\ records[k][1] = 1)

\* a record is still initialized after a successful Increment of the largest
\* amount
C20_Witness ==
    /\ CorrectAddress /\ Selector(1) /\ last.result = Ok
    /\ AmountBytes = [i \in 1..8 |-> 255]
    /\ Len(PreData) = 41 /\ PreData[1] = 1
    /\ Len(PostData) = 41 /\ PostData[1] = 1

\* C19 (score equals the history): the stored score of an initialized record
\* is the sum of the amounts of the Increments on it that succeeded since its
\* Create, with no carry out of 64 bits; failed invocations add nothing.
C19_ScoreEqualsHistory ==
    \A k \in Keys :
        (Len(records[k]) = 41 /\ records[k][1] = 1)
        => ScoreBytes(records[k]) \o <<0>> = total[k]

\* after an accepted non-zero Increment, a further well-formed one fails and
\* the record still holds the accepted amount
C19_Witness ==
    /\ CorrectAddress /\ Selector(1) /\ Len(last.data) = 9
    /\ AmountBytes # Zeroes(8)
    /\ last.result # Ok
    /\ Len(PostData) = 41
    /\ ScoreBytes(PostData) # Zeroes(8)
    /\ ScoreBytes(PostData) \o <<0>> = total[ScoreKey]
====
